---- MODULE Spec2Model ----
(***************************************************************************)
(* Model of backend/email_agent_example.py (EmailAgent) and                *)
(* backend/messaging_agent_example.py (MessagingAgent).                    *)
(*                                                                         *)
(* Python strings are sequences of one-character strings.  None and an     *)
(* attribute that was never assigned are sentinel sequences that no string *)
(* equals.  Every public coroutine is an operator that maps the object,    *)
(* its arguments and the behaviour of the provider during that call to an  *)
(* outcome: the returned value, whether an exception left the coroutine,   *)
(* whether an except clause ran, the provider calls in order and the       *)
(* number of asyncio.to_thread dispatches.  One action per coroutine       *)
(* stores the outcome of a call in the state.                              *)
(***************************************************************************)
EXTENDS Integers, Sequences, FiniteSets, TLC

VARIABLES email, TWILIO_AVAILABLE, messaging,
          op, args, ret, raised, caught, calls, threads

vars == <<email, TWILIO_AVAILABLE, messaging,
          op, args, ret, raised, caught, calls, threads>>

----------------------------------------------------------------------------
(* Bounds *)

MaxMailbox == 3

MaxLimit == 4

MaxListing == 2

----------------------------------------------------------------------------
(* Python values *)

None == <<"None">>

Unset == <<"AttributeError">>

Truthy(x) == x # None /\ x # <<>>

Min(a, b) == IF a < b THEN a ELSE b

Max(a, b) == IF a > b THEN a ELSE b

\* s[start:]
PySliceFrom(s, start) ==
    LET n  == Len(s)
        st == IF start < 0 THEN Max(start + n, 0) ELSE Min(start, n)
    IN  SubSeq(s, st + 1, n)

\* s[:stop]
PySliceTo(s, stop) ==
    LET n  == Len(s)
        sp == IF stop < 0 THEN Max(stop + n, 0) ELSE Min(stop, n)
    IN  SubSeq(s, 1, sp)

\* a string of n characters
Text(n) == [i \in 1..n |-> IF i % 2 = 1 THEN "a" ELSE "b"]

\* one provider call: its name, whether it returned, what was passed
Ev(api, ok, arg) == [api |-> api, ok |-> ok, arg |-> arg]

\* the provider calls names[1], names[2], ... issued in order, the k-th
\* raising (k outside 1..Len(names): none raises)
Steps(names, k) ==
    [i \in 1..(IF k \in 1..Len(names) THEN k ELSE Len(names)) |->
        Ev(names[i], i # k, None)]

Outcome(r, esc, cau, cs, th) ==
    [ret |-> r, raised |-> esc, caught |-> cau, calls |-> cs, threads |-> th]

----------------------------------------------------------------------------
(* EmailAgent *)

Addr == <<"m", "e", "@", "x">>

Passwd == <<"p", "w">>

Rcpt == <<"y", "o", "u", "@", "x">>

EmailAgentInit(address, password) ==
    [email_address |-> address, email_password |-> password]

BodyLimit == 500

SmtpSteps == <<"starttls", "login", "send_message">>

\* with smtplib.SMTP(...) as server: starttls; login; send_message
\* failAt = 1: the constructor (connect) raises and no connection exists;
\* otherwise the with block closes the connection on exit, also when the
\* body raised.
SendSyncNoClose(self, msg, to, failAt) ==
    IF failAt = 1
    THEN [exc |-> TRUE, calls |-> <<Ev("SMTP", FALSE, None)>>]
    ELSE LET body == Steps(SmtpSteps, failAt - 1)
             exc  == failAt - 1 \in 1..Len(SmtpSteps)
         IN  [exc   |-> exc,
              calls |-> <<Ev("SMTP", TRUE, None)>> \o body
                        \o (IF exc THEN <<>> ELSE <<Ev("close", TRUE, None)>>)]

_send_sync(self, msg, to, failAt) ==
    IF failAt = 1
    THEN [exc |-> TRUE, calls |-> <<Ev("SMTP", FALSE, None)>>]
    ELSE LET body == Steps(SmtpSteps, failAt - 1)
         IN  [exc   |-> failAt - 1 \in 1..Len(SmtpSteps),
              calls |-> <<Ev("SMTP", TRUE, None)>> \o body
                        \o <<Ev("close", TRUE, None)>>]

MIMEMultipart(from, to, subject, body, is_html) ==
    [From |-> from, To |-> to, Subject |-> subject,
     parts |-> <<[subtype |-> IF is_html THEN "html" ELSE "plain",
                  text |-> body]>>]

SendEmailNoCheck(self, to, subject, body, is_html, failAt) ==
    LET msg == MIMEMultipart(self.email_address, to, subject, body, is_html)
        s   == _send_sync(self, msg, to, failAt)
    IN  IF s.exc
        THEN Outcome(FALSE, FALSE, TRUE, s.calls, 1)
        ELSE Outcome(TRUE, FALSE, FALSE, s.calls, 1)

send_email(self, to, subject, body, is_html, failAt) ==
    IF ~Truthy(self.email_address) \/ ~Truthy(self.email_password)
    THEN Outcome(FALSE, FALSE, FALSE, <<>>, 0)
    ELSE LET msg == MIMEMultipart(self.email_address, to, subject, body, is_html)
             s   == _send_sync(self, msg, to, failAt)
         IN  IF s.exc
             THEN Outcome(FALSE, FALSE, TRUE, s.calls, 1)
             ELSE Outcome(TRUE, FALSE, FALSE, s.calls, 1)

----------------------------------------------------------------------------
(* EmailAgent.read_emails *)

\* one message of the inbox.  Subject is the sequence of chunks that
\* decode_header yields, NoHeader when the header is absent (msg["Subject"]
\* is None); a payload is None when its bytes do not decode.
NoHeader == <<>>

Part(ctype, payload) == [ctype |-> ctype, payload |-> payload]

Message(subject, multipart, parts) ==
    [Subject |-> subject, From |-> Rcpt, Date |-> <<"d">>,
     multipart |-> multipart, parts |-> parts]

MsgLong == Message(<<Text(2), Text(1)>>, FALSE,
                   <<Part("text/plain", Text(BodyLimit + 1))>>)

MsgMulti == Message(<<Text(1)>>, TRUE,
                    <<Part("multipart/alternative", None),
                      Part("text/html", Text(3)),
                      Part("text/plain", Text(BodyLimit)),
                      Part("text/plain", Text(1))>>)

MsgHtmlOnly == Message(<<Text(1)>>, TRUE,
                       <<Part("multipart/mixed", None),
                         Part("text/html", Text(3))>>)

MsgNoSubject == Message(NoHeader, FALSE, <<Part("text/plain", Text(2))>>)

MsgBadBytes == Message(<<Text(1)>>, FALSE, <<Part("text/plain", None)>>)

InboxMessages == {MsgLong, MsgMulti, MsgHtmlOnly, MsgNoSubject, MsgBadBytes}

\* what mail.fetch(id, "(RFC822)") returns for message m: a tuple holding
\* the message bytes, then the closing b")"
FetchResponse(m) == <<[isTuple |-> TRUE, msg |-> m],
                      [isTuple |-> FALSE, msg |-> m]>>

\* the first text/plain part of msg.walk(), from index i on
RECURSIVE FirstPlain(_, _)
FirstPlain(parts, i) ==
    IF i > Len(parts) THEN 0
    ELSE IF parts[i].ctype = "text/plain" THEN i
    ELSE FirstPlain(parts, i + 1)

\* lines 143-162: the decoded body, or exc when a step raises
GetBody(msg) ==
    IF msg.multipart
    THEN LET i == FirstPlain(msg.parts, 1)
         IN  IF i = 0 THEN [exc |-> FALSE, body |-> <<>>]
             ELSE IF msg.parts[i].payload = None
                  THEN [exc |-> TRUE, body |-> <<>>]
                  ELSE [exc |-> FALSE, body |-> msg.parts[i].payload]
    ELSE IF msg.parts[1].payload = None
         THEN [exc |-> TRUE, body |-> <<>>]
         ELSE [exc |-> FALSE, body |-> msg.parts[1].payload]

SummaryNoLimit(msg, body) ==
    [from |-> msg.From, subject |-> msg.Subject[1],
     body |-> body, date |-> msg.Date]

\* lines 164-169
Summary(msg, body) ==
    [from |-> msg.From, subject |-> msg.Subject[1],
     body |-> PySliceTo(body, BodyLimit), date |-> msg.Date]

\* lines 141-169 for the response of one fetch: the summaries appended to
\* emails, or exc when decoding raises
RECURSIVE Decode(_, _, _)
Decode(msg_data, i, emails) ==
    IF i > Len(msg_data) THEN [exc |-> FALSE, emails |-> emails]
    ELSE IF ~msg_data[i].isTuple THEN Decode(msg_data, i + 1, emails)
    ELSE LET msg == msg_data[i].msg
             b   == GetBody(msg)
         IN  IF msg.Subject = NoHeader \/ b.exc
             THEN [exc |-> TRUE, emails |-> emails]
             ELSE Decode(msg_data, i + 1,
                         Append(emails, Summary(msg, b.body)))

ImapOpen == <<"IMAP4_SSL", "login", "select", "search">>

ImapClose == <<"close", "logout">>

\* line 138: email_ids[-limit:]
Select(email_ids, limit) == PySliceFrom(email_ids, 0 - limit)

\* lines 138-172: the loop over the selected ids from position j on, then
\* close and logout.  The provider call number failAt raises; fetch number
\* j is provider call Len(ImapOpen) + j.
RECURSIVE FetchLoop(_, _, _, _, _, _)
FetchLoop(mailbox, sel, j, failAt, emails, cs) ==
    IF j > Len(sel)
    THEN LET k == failAt - Len(ImapOpen) - Len(sel)
         IN  [emails |-> emails, exc |-> k \in 1..Len(ImapClose),
              calls |-> cs \o Steps(ImapClose, k)]
    ELSE IF failAt = Len(ImapOpen) + j
    THEN [emails |-> emails, exc |-> TRUE,
          calls |-> Append(cs, Ev("fetch", FALSE, sel[j]))]
    ELSE LET d == Decode(FetchResponse(mailbox[sel[j]]), 1, emails)
             c == Append(cs, Ev("fetch", TRUE, sel[j]))
         IN  IF d.exc
             THEN [emails |-> d.emails, exc |-> TRUE, calls |-> c]
             ELSE FetchLoop(mailbox, sel, j + 1, failAt, d.emails, c)

\* the inner try catches every exception and the list built so far is
\* returned
_read_emails_sync(self, mailbox, limit, failAt) ==
    IF failAt \in 1..Len(ImapOpen)
    THEN [emails |-> <<>>, caught |-> TRUE, calls |-> Steps(ImapOpen, failAt)]
    ELSE LET email_ids == [i \in 1..Len(mailbox) |-> i]
             r == FetchLoop(mailbox, Select(email_ids, limit), 1, failAt,
                            <<>>, Steps(ImapOpen, 0))
         IN  [emails |-> r.emails, caught |-> r.exc, calls |-> r.calls]

read_emails(self, mailbox, limit, failAt) ==
    IF ~Truthy(self.email_address) \/ ~Truthy(self.email_password)
    THEN Outcome(<<>>, FALSE, FALSE, <<>>, 0)
    ELSE LET r == _read_emails_sync(self, mailbox, limit, failAt)
         IN  Outcome(r.emails, FALSE, r.caught, r.calls, 1)

----------------------------------------------------------------------------
(* MessagingAgent *)

Sid == <<"A", "C">>

Token == <<"t", "k">>

Phone == <<"+", "1", "5">>

Dest == <<"+", "4", "4">>

Recipients == {Dest, <<"+", "7">>}

Hello == <<"h", "i">>

TwilioClient(account_sid, auth_token) ==
    <<"TwilioClient">> \o account_sid \o auth_token

\* __init__: with the SDK missing it returns before from_number is assigned
MessagingAgentInit(available, account_sid, auth_token, phone) ==
    IF ~available
    THEN [client |-> None, from_number |-> Unset]
    ELSE [client |-> IF Truthy(account_sid) /\ Truthy(auth_token)
                     THEN TwilioClient(account_sid, auth_token) ELSE None,
          from_number |-> phone]

\* what client.messages.create does during one call: it raises, or returns
\* None, or returns a message whose sid is None, empty or a string
Resp(raises, isNone, sid) == [raises |-> raises, isNone |-> isNone, sid |-> sid]

Responses == {Resp(TRUE, FALSE, None), Resp(FALSE, TRUE, None),
              Resp(FALSE, FALSE, None), Resp(FALSE, FALSE, <<>>),
              Resp(FALSE, FALSE, <<"S", "M", "1">>)}

Create(body, from_, to, resp) ==
    Ev("messages.create", ~resp.raises, [body |-> body, from_ |-> from_, to |-> to])

\* lines 74-88 and 121-134: the awaited create call and the test of its result
Dispatch(body, from_, to, resp) ==
    IF resp.raises
    THEN Outcome(FALSE, FALSE, TRUE, <<Create(body, from_, to, resp)>>, 1)
    ELSE Outcome(~resp.isNone /\ Truthy(resp.sid), FALSE, FALSE,
                 <<Create(body, from_, to, resp)>>, 1)

AttributeError == Outcome(None, TRUE, FALSE, <<>>, 0)

SendSmsUncaught(self, to, message, resp) ==
    IF ~Truthy(self.client) THEN Outcome(FALSE, FALSE, FALSE, <<>>, 0)
    ELSE IF self.from_number = Unset THEN AttributeError
    ELSE IF ~Truthy(self.from_number) THEN Outcome(FALSE, FALSE, FALSE, <<>>, 0)
    ELSE IF resp.raises
         THEN Outcome(None, TRUE, FALSE,
                      <<Create(message, self.from_number, to, resp)>>, 1)
         ELSE Dispatch(message, self.from_number, to, resp)

SendSmsAnySid(self, to, message, resp) ==
    IF ~Truthy(self.client) THEN Outcome(FALSE, FALSE, FALSE, <<>>, 0)
    ELSE IF self.from_number = Unset THEN AttributeError
    ELSE IF ~Truthy(self.from_number) THEN Outcome(FALSE, FALSE, FALSE, <<>>, 0)
    ELSE IF resp.raises
         THEN Dispatch(message, self.from_number, to, resp)
         ELSE Outcome(~resp.isNone, FALSE, FALSE,
                      <<Create(message, self.from_number, to, resp)>>, 1)

send_sms(self, to, message, resp) ==
    IF ~Truthy(self.client) THEN Outcome(FALSE, FALSE, FALSE, <<>>, 0)
    ELSE IF self.from_number = Unset THEN AttributeError
    ELSE IF ~Truthy(self.from_number) THEN Outcome(FALSE, FALSE, FALSE, <<>>, 0)
    ELSE Dispatch(message, self.from_number, to, resp)

WhatsappTag == <<"w", "h", "a", "t", "s", "a", "p", "p", ":">>

SendWhatsappBareTo(self, to, message, resp) ==
    IF ~Truthy(self.client) THEN Outcome(FALSE, FALSE, FALSE, <<>>, 0)
    ELSE IF self.from_number = Unset THEN AttributeError
    ELSE LET whatsapp_from == IF Truthy(self.from_number)
                              THEN WhatsappTag \o self.from_number ELSE None
         IN  IF ~Truthy(whatsapp_from)
             THEN Outcome(FALSE, FALSE, FALSE, <<>>, 0)
             ELSE Dispatch(message, whatsapp_from, to, resp)

SendWhatsappTagFirst(self, to, message, resp) ==
    IF self.from_number = Unset THEN AttributeError
    ELSE LET whatsapp_from == IF Truthy(self.from_number)
                              THEN WhatsappTag \o self.from_number ELSE None
             whatsapp_to   == WhatsappTag \o to
         IN  IF ~Truthy(self.client) \/ ~Truthy(whatsapp_from)
             THEN Outcome(FALSE, FALSE, FALSE, <<>>, 0)
             ELSE Dispatch(message, whatsapp_from, whatsapp_to, resp)

send_whatsapp(self, to, message, resp) ==
    IF ~Truthy(self.client) THEN Outcome(FALSE, FALSE, FALSE, <<>>, 0)
    ELSE IF self.from_number = Unset THEN AttributeError
    ELSE LET whatsapp_from == IF Truthy(self.from_number)
                              THEN WhatsappTag \o self.from_number ELSE None
             whatsapp_to   == WhatsappTag \o to
         IN  IF ~Truthy(whatsapp_from)
             THEN Outcome(FALSE, FALSE, FALSE, <<>>, 0)
             ELSE Dispatch(message, whatsapp_from, whatsapp_to, resp)

\* a message of the provider account; broken: reading its attributes raises
TwilioMessage(body, broken) ==
    [from_ |-> Dest, to |-> Phone, body |-> body, date_sent |-> <<"d">>,
     status |-> <<"r">>, broken |-> broken]

TwilioMessages == {TwilioMessage(Hello, FALSE), TwilioMessage(<<>>, FALSE),
                   TwilioMessage(Hello, TRUE)}

\* str(x)
Str(x) == <<"s", "t", "r">> \o x

\* lines 175-182 from position i on
RECURSIVE MapLoop(_, _, _)
MapLoop(twilio_messages, i, messages) ==
    IF i > Len(twilio_messages) THEN [messages |-> messages, exc |-> FALSE]
    ELSE IF twilio_messages[i].broken THEN [messages |-> messages, exc |-> TRUE]
    ELSE LET msg == twilio_messages[i]
         IN  MapLoop(twilio_messages, i + 1,
                     Append(messages,
                            [from |-> msg.from_, to |-> msg.to,
                             body |-> msg.body, date |-> Str(msg.date_sent),
                             status |-> msg.status]))

\* listing: what client.messages.list(limit=limit) returns; listRaises: it
\* raises instead
_get_messages_sync(self, limit, listing, listRaises) ==
    LET call == Ev("messages.list", ~listRaises, limit)
    IN  IF listRaises
        THEN [messages |-> <<>>, caught |-> TRUE, calls |-> <<call>>]
        ELSE LET r == MapLoop(listing, 1, <<>>)
             IN  [messages |-> r.messages, caught |-> r.exc, calls |-> <<call>>]

get_messages(self, limit, listing, listRaises) ==
    IF ~Truthy(self.client) THEN Outcome(<<>>, FALSE, FALSE, <<>>, 0)
    ELSE LET r == _get_messages_sync(self, limit, listing, listRaises)
         IN  Outcome(r.messages, FALSE, r.caught, r.calls, 1)

----------------------------------------------------------------------------
(* State machine *)

Mailboxes == UNION {[1..n -> InboxMessages] : n \in 0..MaxMailbox}

Listings == UNION {[1..n -> TwilioMessages] : n \in 0..MaxListing}

\* the caller awaits one coroutine at a time: a call starts when the
\* result of the previous one has been dropped
Idle == op = "none"

Store(name, a, o) ==
    /\ op' = name
    /\ args' = a
    /\ ret' = o.ret
    /\ raised' = o.raised
    /\ caught' = o.caught
    /\ calls' = o.calls
    /\ threads' = o.threads
    /\ UNCHANGED <<email, TWILIO_AVAILABLE, messaging>>

Init ==
    /\ \E a \in {None, <<>>, Addr}, p \in {None, <<>>, Passwd} :
          email = EmailAgentInit(a, p)
    /\ TWILIO_AVAILABLE \in BOOLEAN
    /\ \E s \in {None, Sid}, t \in {None, Token}, n \in {None, <<>>, Phone} :
          messaging = MessagingAgentInit(TWILIO_AVAILABLE, s, t, n)
    /\ op = "none"
    /\ args = None
    /\ ret = None
    /\ raised = FALSE
    /\ caught = FALSE
    /\ calls = <<>>
    /\ threads = 0

SendEmail ==
    /\ Idle
    /\ \E is_html \in BOOLEAN, failAt \in 0..(Len(SmtpSteps) + 1) :
        Store("send_email",
              [to |-> Rcpt, subject |-> Text(1), body |-> Text(2),
               is_html |-> is_html, failAt |-> failAt],
              send_email(email, Rcpt, Text(1), Text(2), is_html, failAt))

ReadEmails ==
    /\ Idle
    /\ \E mailbox \in Mailboxes, limit \in -1..MaxLimit,
       failAt \in 0..(Len(ImapOpen) + MaxMailbox + Len(ImapClose)) :
        Store("read_emails",
              [mailbox |-> mailbox, limit |-> limit, failAt |-> failAt],
              read_emails(email, mailbox, limit, failAt))

SendSms ==
    /\ Idle
    /\ \E to \in Recipients, resp \in Responses :
        Store("send_sms", [to |-> to, message |-> Hello, resp |-> resp],
              send_sms(messaging, to, Hello, resp))

SendWhatsapp ==
    /\ Idle
    /\ \E to \in Recipients, resp \in Responses :
        Store("send_whatsapp", [to |-> to, message |-> Hello, resp |-> resp],
              send_whatsapp(messaging, to, Hello, resp))

GetMessages ==
    /\ Idle
    /\ \E limit \in 0..MaxLimit, listing \in Listings, listRaises \in BOOLEAN :
        Store("get_messages",
              [limit |-> limit, listing |-> listing, listRaises |-> listRaises],
              get_messages(messaging, limit, listing, listRaises))

\* the caller drops the returned value; the objects keep their attributes
Discard ==
    /\ op # "none"
    /\ op' = "none"
    /\ args' = None
    /\ ret' = None
    /\ raised' = FALSE
    /\ caught' = FALSE
    /\ calls' = <<>>
    /\ threads' = 0
    /\ UNCHANGED <<email, TWILIO_AVAILABLE, messaging>>

Next ==
    SendEmail \/ ReadEmails \/ SendSms \/ SendWhatsapp \/ GetMessages \/ Discard

Spec == Init /\ [][Next]_vars

----------------------------------------------------------------------------
(* Properties *)

SendOps == {"send_email", "send_sms", "send_whatsapp"}

ListOps == {"read_emails", "get_messages"}

EmailOps == {"send_email", "read_emails"}

EmailConfigured == Truthy(email.email_address) /\ Truthy(email.email_password)

HasClient == Truthy(messaging.client)

HasNumber == messaging.from_number # Unset /\ Truthy(messaging.from_number)

\* the wrapper lacks what the operation of the last call requires
Unconfigured ==
    \/ op \in EmailOps /\ ~EmailConfigured
    \/ op \in {"send_sms", "send_whatsapp"} /\ (~HasClient \/ ~HasNumber)
    \/ op = "get_messages" /\ ~HasClient

Configured == op # "none" /\ ~Unconfigured

\* positions of the calls of one provider operation
At(api) == {i \in 1..Len(calls) : calls[i].api = api}

Failed == {i \in 1..Len(calls) : ~calls[i].ok}

\* C1: a call on an unconfigured wrapper returns False (sends) or the empty
\* list (retrievals) and issues no worker-thread dispatch and no provider call
C1_UnconfiguredShortCircuits ==
    Unconfigured =>
        /\ op \in SendOps => ret = FALSE
        /\ op \in ListOps => ret = <<>>
        /\ threads = 0
        /\ calls = <<>>
        /\ ~raised

C1_Witness ==
    \/ op = "send_sms" /\ HasClient /\ ~HasNumber /\ ret = FALSE
    \/ op = "read_emails" /\ ~EmailConfigured /\ args.failAt = 0
          /\ Len(args.mailbox) > 0 /\ args.limit > 0

\* C2: when a provider call raises, the operation still returns normally
\* (False for sends, a list for retrievals), nothing escapes to the caller,
\* and no provider call is issued again after the one that raised
C2_ProviderExceptionsAbsorbed ==
    /\ ~raised
    /\ Failed # {} =>
        /\ op \in SendOps => ret = FALSE
        /\ op \in ListOps => Len(ret) >= 0
        /\ caught
        /\ \A i \in Failed : \A j \in 1..Len(calls) :
              j > i => calls[j].api = "close" /\ op = "send_email"

C2_Witness ==
    \/ op = "send_sms" /\ Failed = {1} /\ ret = FALSE
    \/ op = "send_email" /\ Failed = {3} /\ ret = FALSE
    \/ op = "read_emails" /\ Failed = {6} /\ Len(ret) = 1

\* C3: a retrieval in which any step raised returns the empty list, also
\* when messages had been appended before the failure
C3_EmptyOnFailure ==
    op \in ListOps /\ caught => ret = <<>>

\* the ids passed to mail.fetch, in order
Fetched == [i \in 1..Cardinality(At("fetch")) |-> calls[Len(ImapOpen) + i].arg]

\* C4: for limit >= 0 and a mailbox of n ids, read_emails fetches exactly the
\* last min(limit, n) ids in mailbox order and returns at most limit entries
C4_LimitMostRecent ==
    op = "read_emails" /\ Configured /\ ~caught /\ args.limit >= 0 =>
        LET n == Len(args.mailbox)
            m == Min(args.limit, n)
        IN  /\ Fetched = [i \in 1..m |-> n - m + i]
            /\ Len(ret) <= args.limit

\* C5: whenever the IMAP connection was opened, close and logout are called
\* before _read_emails_sync returns
C5_SessionClosed ==
    op = "read_emails" /\ (\E i \in At("IMAP4_SSL") : calls[i].ok) =>
        At("close") # {} /\ At("logout") # {}

\* C6: a send on a configured wrapper dispatches once and returns True
\* exactly when the provider call succeeds: for send_email when no SMTP step
\* raises, for send_sms and send_whatsapp when messages.create returns an
\* object with a non-empty sid
C6_SendTrueIffProviderSucceeds ==
    op \in SendOps /\ Configured =>
        /\ ~raised
        /\ threads = 1
        /\ op = "send_email" =>
              /\ Cardinality(At("SMTP")) = 1
              /\ Cardinality(At("send_message")) <= 1
              /\ ret = TRUE <=> Failed = {}
        /\ op \in {"send_sms", "send_whatsapp"} =>
              /\ Len(calls) = 1
              /\ calls[1].api = "messages.create"
              /\ ret = TRUE <=> /\ ~args.resp.raises
                                /\ ~args.resp.isNone
                                /\ Truthy(args.resp.sid)

C6_Witness ==
    /\ op = "send_sms"
    /\ Configured
    /\ ret = TRUE
    /\ args.resp.sid # <<>>

\* C7: send_whatsapp behaves as send_sms does on the same object and provider
\* response, except that the one messages.create call carries
\* "whatsapp:" + from_number and "whatsapp:" + to, with the body unchanged
C7_WhatsappIsTaggedSms ==
    op = "send_whatsapp" =>
        LET sms == send_sms(messaging, args.to, args.message, args.resp)
        IN  /\ raised = sms.raised
            /\ ~raised => ret = sms.ret
            /\ threads = sms.threads
            /\ Len(calls) = Len(sms.calls)
            /\ ~HasClient \/ ~HasNumber => ~raised /\ ret = FALSE /\ calls = <<>>
            /\ HasClient /\ HasNumber =>
                  /\ Len(calls) = 1
                  /\ calls[1].api = "messages.create"
                  /\ calls[1].ok = sms.calls[1].ok
                  /\ calls[1].arg = [body  |-> args.message,
                                     from_ |-> WhatsappTag \o messaging.from_number,
                                     to    |-> WhatsappTag \o args.to]

C7_Witness ==
    /\ op = "send_whatsapp"
    /\ Len(calls) = 1
    /\ calls[1].arg.to = WhatsappTag \o Dest
    /\ calls[1].arg.from_ = WhatsappTag \o Phone
    /\ ret = TRUE

\* C8: without the SDK the agent has no client, and every send returns
\* False, every get_messages the empty list, with no provider call and no
\* exception, although from_number was never assigned
C8_DisabledWithoutSdk ==
    ~TWILIO_AVAILABLE =>
        /\ messaging.client = None
        /\ op \in {"send_sms", "send_whatsapp", "get_messages"} =>
              /\ ~raised
              /\ op = "get_messages" => ret = <<>>
              /\ op # "get_messages" => ret = FALSE
              /\ calls = <<>>
              /\ threads = 0

C8_Witness ==
    /\ ~TWILIO_AVAILABLE
    /\ messaging.from_number = Unset
    /\ op = "send_whatsapp"
    /\ ~args.resp.raises

\* C9: the body of every returned summary is the prefix of the decoded body
\* of its message of length min(len, 500)
C9_BodyTruncated ==
    op = "read_emails" =>
        \A i \in 1..Len(ret) :
            LET b == GetBody(args.mailbox[Fetched[i]]).body
            IN  /\ Len(ret[i].body) = Min(Len(b), 500)
                /\ \A k \in 1..Len(ret[i].body) : ret[i].body[k] = b[k]

C9_Witness ==
    /\ op = "read_emails"
    /\ Len(ret) = 2
    /\ Len(GetBody(args.mailbox[Fetched[1]]).body) = 501
    /\ Len(ret[1].body) = 500
    /\ Len(GetBody(args.mailbox[Fetched[2]]).body) = 500
    /\ Len(ret[2].body) = 500

Before(a, i) == \E j \in 1..(i - 1) : calls[j].api = a /\ calls[j].ok

\* C10: in send_email the SMTP steps run in the order connect, starttls,
\* login, send_message, close, each only after the previous one succeeded,
\* and an opened connection is closed before the return, also when a step
\* raises
C10_SmtpOrder ==
    op = "send_email" /\ Configured =>
        /\ calls[1].api = "SMTP"
        /\ \A i \in At("starttls") : Before("SMTP", i)
        /\ \A i \in At("login") : Before("starttls", i)
        /\ \A i \in At("send_message") : Before("login", i)
        /\ \A i \in At("close") : i = Len(calls)
        /\ calls[1].ok => calls[Len(calls)].api = "close"
        /\ ret = TRUE => Before("send_message", Len(calls))

C10_Witness ==
    /\ op = "send_email"
    /\ Len(calls) = 4
    /\ calls[3].api = "login"
    /\ ~calls[3].ok
    /\ calls[4].api = "close"
    /\ ret = FALSE

====
